---- MODULE Spec2Model ----
(***************************************************************************)
(* Model of the PDF ingestion pipeline of flowchat                          *)
(* (src/server/ingest/ingest_pdfs.py): the chunker chunk_text, the          *)
(* identifier derivation stable_id, the per-document orchestrator          *)
(* ingest_pdf with its embedding batches and its write buffer, and the      *)
(* run of main over the documents of a directory; and of the translation   *)
(* workflow (src/translate/translate_files.py): OpenAITranslator.translate  *)
(* called by worker threads, translate_paragraphs and the run over the      *)
(* input files.                                                             *)
(*                                                                          *)
(* A text is a sequence of one-character strings.  A digest (sha1) is       *)
(* modelled as an injective tagging of its argument.                        *)
(***************************************************************************)
EXTENDS Integers, Sequences, FiniteSets, TLC

\* ------------------------------------------------------------------------
\* Bounds of the model
\* ------------------------------------------------------------------------
MaxTextLen == 4
MaxLen == 3
MaxPages == 2
MaxBatch == 2
MaxChunkSize == 2

\* Program constants: the defaults of chunk_text's parameters
DefaultMaxLen == 1800
DefaultOverlap == 200

Chars == {" ", "a", "b"}
Whitespace == {" ", "\n", "\t"}

Min(a, b) == IF a < b THEN a ELSE b
Max(a, b) == IF a > b THEN a ELSE b

\* All texts of length at most n over Chars
TextsUpTo(n) == UNION {[1..k -> Chars] : k \in 0..n}

\* ------------------------------------------------------------------------
\* str.strip()
\* ------------------------------------------------------------------------
IsSpace(c) == c \in Whitespace

RECURSIVE lskip(_, _)
lskip(s, k) == IF k > Len(s) \/ ~IsSpace(s[k]) THEN k ELSE lskip(s, k + 1)

RECURSIVE rskip(_, _)
rskip(s, k) == IF k < 1 \/ ~IsSpace(s[k]) THEN k ELSE rskip(s, k - 1)

strip(s) == SubSeq(s, lskip(s, 1), rskip(s, Len(s)))

\* ------------------------------------------------------------------------
\* chunk_text: the pieces of one loop iteration
\* ------------------------------------------------------------------------
effective_overlap_unclamped(overlap, max_len) == Max(0, Min(overlap, max_len))

effective_overlap(overlap, max_len) == Max(0, Min(overlap, max_len - 1))

step_skipping(overlap, max_len) == max_len + 1

step_ignoring_overlap(overlap, max_len) == max_len

step_of(overlap, max_len) == max_len - effective_overlap(overlap, max_len)

window_end(i, max_len, n) == Min(i + max_len, n)

\* text[i:end] of a 0-based cursor i
slice_of(text, i, end) == SubSeq(text, i + 1, end)

append_always(chunks, slice_) == Append(chunks, slice_)

\* if slice_: chunks.append(slice_)
append_kept(chunks, slice_) == IF slice_ # <<>> THEN Append(chunks, slice_) ELSE chunks

RECURSIVE chunk_loop(_, _, _, _, _)
chunk_loop(text, max_len, step, i, chunks) ==
    LET n == Len(text)
    IN  IF i < n
        THEN LET end == window_end(i, max_len, n)
                 chunks2 == append_kept(chunks, strip(slice_of(text, i, end)))
             IN  IF end = n THEN chunks2
                 ELSE chunk_loop(text, max_len, step, i + step, chunks2)
        ELSE chunks

chunk_text(text, max_len, overlap) ==
    IF Len(text) = 0 \/ max_len <= 0 THEN <<>>
    ELSE chunk_loop(text, max_len, step_of(overlap, max_len), 0, <<>>)

\* ------------------------------------------------------------------------
\* State
\* ------------------------------------------------------------------------
VARIABLES
    \* one call of chunk_text, iteration by iteration
    c_pc,        \* "idle" | "call" | "loop" | "done"
    c_text, c_max_len, c_overlap,
    c_step, c_i, c_chunks,
    c_iters,     \* history: number of loop iterations run
    c_windows,   \* history: the windows <<i, end>> taken, in order
    \* one call of ingest_pdf
    pc,          \* "idle" | "call" | "read" | "page" | "batch" | "flush" | "final" | "done" | "failed"
    args,        \* the arguments of the call
    pages, timestamp, source_pdf, file_hash,
    total_chunks, rows_buffer, rows_written,
    page_index, chunks, i,
    built,       \* history: every row appended to rows_buffer, in order
    embeds,      \* history: the embedding requests made
    writes,      \* history: the index write requests made
    last_op,     \* history: what the last step did
    \* one run of main
    m_pc,        \* "idle" | "start" | "loop" | "ingest" | "summary" | "exit1"
    directory,   \* the input directory: whether it exists, and its files
    m_args,      \* the command line and the environment
    pdfs, idx,
    m_total_chunks, total_written,
    attempts,    \* history: the names logged as "Processing", in order
    outcomes,    \* history: how each call of ingest_pdf ended
    id_log,      \* history: the ids of the rows built, with where they come from
    flush_sum,   \* history: the sum of the counts the successful writes returned
    \* a page ingested before and after an edit of one character
    e_pc,        \* "idle" | "original" | "edited" | "done"
    e_text, e_pos, e_char, e_max_len, e_overlap,
    e_before, e_after,
    \* OpenAITranslator.translate called by worker threads
    t_pc,           \* per thread: "idle" | "getattr" | "construct" | "store" | "loop" | "sleep" | "returned" | "raised"
    api_key,        \* whether OPENAI_API_KEY is set
    thread_local,   \* _OPENAI_THREAD_LOCAL: the client attribute of each slot, 0 for none
    client,         \* per thread: the local variable client, 0 for none
    attempt, delay_seconds,
    t_calls,        \* history: per thread, the calls of translate started
    built_by,       \* history: the thread that constructed each client
    used_by,        \* history: the pairs <<client, thread>> of the requests made
    responses,      \* history: per thread, the outcomes of the requests of the current call
    slept,          \* history: per thread, the delays slept in the current call
    \* one call of translate_paragraphs
    p_pc,           \* "idle" | "loop" | "map" | "final" | "done"
    p_paragraphs, p_translator, p_max_chunk_chars, p_chunk_workers,
    p_idx, p_out, p_buffer,
    p_chunks,       \* the chunks handed to executor.map
    p_running,      \* per worker: the index of the chunk it translates, 0 for none
    p_results,      \* per chunk: <<>> while pending, <<text>> once translated
    p_after,        \* where the loop goes on after the flush
    p_order,        \* history: the chunk indexes in the order their calls completed, by flush
    p_flushes,      \* history: per flush, the paragraphs buffered and the lines obtained
    \* one run of the translation main over the files found
    f_pc,           \* per file: "queued" | "start" | "checked" | "wrote" | "skipped" | "raised"
    f_files, f_args,
    f_exists,       \* the output paths that exist
    f_before,       \* history: the output paths that existed before the run
    f_writes        \* history: the <<output path, input file>> of each write, in order

cvars == <<c_pc, c_text, c_max_len, c_overlap, c_step, c_i, c_chunks, c_iters, c_windows>>
ivars == <<pc, args, pages, timestamp, source_pdf, file_hash, total_chunks,
           rows_buffer, rows_written, page_index, chunks, i, built, embeds, writes, last_op>>
mvars == <<m_pc, directory, m_args, pdfs, idx, m_total_chunks, total_written,
           attempts, outcomes, id_log, flush_sum>>
evars == <<e_pc, e_text, e_pos, e_char, e_max_len, e_overlap, e_before, e_after>>
tvars == <<t_pc, api_key, thread_local, client, attempt, delay_seconds, t_calls,
           built_by, used_by, responses, slept>>
pvars == <<p_pc, p_paragraphs, p_translator, p_max_chunk_chars, p_chunk_workers, p_idx,
           p_out, p_buffer, p_chunks, p_running, p_results, p_after, p_order, p_flushes>>
fvars == <<f_pc, f_files, f_args, f_exists, f_before, f_writes>>
\* the state of the translation workflow (src/translate/translate_files.py)
xvars == <<tvars, pvars, fvars>>
vars == <<cvars, ivars, mvars, evars, xvars>>

\* ------------------------------------------------------------------------
\* chunk_text as a state machine
\* ------------------------------------------------------------------------
ExampleText == [k \in 1..4000 |-> "a"]

ChunkIdle ==
    /\ c_pc = "idle" /\ c_text = <<>> /\ c_max_len = 0 /\ c_overlap = 0
    /\ c_step = 0 /\ c_i = 0 /\ c_chunks = <<>> /\ c_iters = 0 /\ c_windows = <<>>

IngestIdle ==
    /\ pc = "idle" /\ args = <<>> /\ pages = <<>> /\ timestamp = ""
    /\ source_pdf = "" /\ file_hash = <<>> /\ total_chunks = 0
    /\ rows_buffer = <<>> /\ rows_written = 0 /\ page_index = 0
    /\ chunks = <<>> /\ i = 0 /\ built = <<>> /\ embeds = <<>>
    /\ writes = <<>> /\ last_op = "none"

MainIdle ==
    /\ m_pc = "idle" /\ directory = <<>> /\ m_args = <<>> /\ pdfs = <<>> /\ idx = 0
    /\ m_total_chunks = 0 /\ total_written = 0 /\ attempts = <<>> /\ outcomes = <<>>
    /\ id_log = {} /\ flush_sum = 0

EditIdle ==
    /\ e_pc = "idle" /\ e_text = <<>> /\ e_pos = 0 /\ e_char = "" /\ e_max_len = 0
    /\ e_overlap = 0 /\ e_before = <<>> /\ e_after = <<>>

ThreadsIdle ==
    /\ t_pc = <<>> /\ api_key = FALSE /\ thread_local = <<>> /\ client = <<>>
    /\ attempt = <<>> /\ delay_seconds = <<>> /\ t_calls = <<>> /\ built_by = <<>>
    /\ used_by = {} /\ responses = <<>> /\ slept = <<>>

ParagraphsIdle ==
    /\ p_pc = "idle" /\ p_paragraphs = <<>> /\ p_translator = "" /\ p_max_chunk_chars = 0
    /\ p_chunk_workers = 0 /\ p_idx = 0 /\ p_out = <<>> /\ p_buffer = <<>>
    /\ p_chunks = <<>> /\ p_running = <<>> /\ p_results = <<>> /\ p_after = ""
    /\ p_order = <<>> /\ p_flushes = <<>>

FilesIdle ==
    /\ f_pc = <<>> /\ f_files = {} /\ f_args = <<>> /\ f_exists = {}
    /\ f_before = {} /\ f_writes = <<>>

TranslateIdle == ThreadsIdle /\ ParagraphsIdle /\ FilesIdle

InitChunk ==
    /\ c_pc = "call"
    /\ \/ /\ c_text \in TextsUpTo(MaxTextLen)
          /\ c_max_len \in 0..MaxLen
          /\ c_overlap \in -1..(MaxLen + 1)
       \/ /\ c_text = ExampleText
          /\ c_max_len = DefaultMaxLen
          /\ c_overlap = DefaultOverlap
    /\ c_step = 0 /\ c_i = 0 /\ c_chunks = <<>> /\ c_iters = 0 /\ c_windows = <<>>
    /\ IngestIdle /\ MainIdle /\ EditIdle /\ TranslateIdle

\* lines 68-75: the early return, the clamp and the cursor's start
ChunkEnter ==
    /\ c_pc = "call"
    /\ IF Len(c_text) = 0 \/ c_max_len <= 0
       THEN c_pc' = "done" /\ UNCHANGED c_step
       ELSE c_pc' = "loop" /\ c_step' = step_of(c_overlap, c_max_len)
    /\ c_i' = 0
    /\ c_chunks' = <<>>
    /\ UNCHANGED <<c_text, c_max_len, c_overlap, c_iters, c_windows>>
    /\ UNCHANGED <<ivars, mvars, evars, xvars>>

\* lines 76-83: one evaluation of the loop condition and, if it holds, one
\* iteration of the body
ChunkIter ==
    /\ c_pc = "loop"
    /\ LET n == Len(c_text)
           end == window_end(c_i, c_max_len, n)
       IN  IF c_i < n
           THEN /\ c_chunks' = append_kept(c_chunks, strip(slice_of(c_text, c_i, end)))
                /\ c_windows' = Append(c_windows, <<c_i, end>>)
                /\ c_iters' = c_iters + 1
                /\ IF end = n
                   THEN c_pc' = "done" /\ UNCHANGED c_i
                   ELSE c_pc' = "loop" /\ c_i' = c_i + c_step
           ELSE /\ c_pc' = "done"
                /\ UNCHANGED <<c_chunks, c_windows, c_iters, c_i>>
    /\ UNCHANGED <<c_text, c_max_len, c_overlap, c_step>>
    /\ UNCHANGED <<ivars, mvars, evars, xvars>>

NextChunk == ChunkEnter \/ ChunkIter

SpecChunk == InitChunk /\ [][NextChunk]_vars

\* chunk_text runs to completion when it is scheduled
SpecChunkFair == SpecChunk /\ WF_vars(NextChunk)

\* The operator chunk_text computes what the loop computes
ChunkLoopAgrees ==
    c_pc = "done" => c_chunks = chunk_text(c_text, c_max_len, c_overlap)

\* ------------------------------------------------------------------------
\* Properties of chunk_text
\* ------------------------------------------------------------------------
AllSpace(s) == \A k \in 1..Len(s) : IsSpace(s[k])

\* The clamp and the step of the claims, written out
ClampedOverlap == Max(0, Min(c_overlap, c_max_len - 1))
ClaimedStep == c_max_len - ClampedOverlap

WindowText(w) == SubSeq(c_text, w[1] + 1, w[2])

\* C4: for max_len > 0 and any overlap chunk_text terminates: the step is
\* max_len - clamp(overlap, 0, max_len-1) and at least 1, the cursor strictly
\* increases from one iteration to the next, and there are at most as many
\* iterations as the text has characters.
ChunkTerminates ==
    /\ [](c_pc = "loop" => c_step = ClaimedStep /\ c_step >= 1)
    /\ [](c_iters <= Len(c_text))
    /\ [][c_pc = "loop" /\ c_pc' = "loop" => c_i' > c_i]_vars
    /\ <>(c_pc = "done")

\* An overlap of at least max_len, clamped to a step of 1, over several iterations
ChunkTerminatesWitness ==
    /\ c_pc = "done"
    /\ c_max_len >= 2 /\ c_overlap >= c_max_len
    /\ c_iters >= 3

\* C5: the windows start at 0, step, 2*step, ..., each is [i, min(i+max_len, n)),
\* the last one taken is the first whose end is n, consecutive windows overlap
\* by exactly the effective overlap, and the 4000-character example gives
\* starts 0, 1600, 3200 and 3 chunks, the last shorter than 1800.
ChunkWindows ==
    LET n == Len(c_text)
    IN  /\ \A k \in 1..Len(c_windows) :
              /\ c_windows[k][1] = (k - 1) * ClaimedStep
              /\ c_windows[k][2] = Min(c_windows[k][1] + c_max_len, n)
              /\ k < Len(c_windows) => c_windows[k][2] < n
        /\ \A k \in 1..(Len(c_windows) - 1) :
              c_windows[k][2] - c_windows[k + 1][1] = ClampedOverlap
        /\ (c_pc = "done" /\ n > 0 /\ c_max_len > 0) =>
              /\ Len(c_windows) >= 1
              /\ c_windows[Len(c_windows)][2] = n
        /\ (c_pc = "done" /\ c_text = ExampleText /\ c_max_len = DefaultMaxLen
                /\ c_overlap = DefaultOverlap) =>
              /\ [k \in 1..Len(c_windows) |-> c_windows[k][1]] = <<0, 1600, 3200>>
              /\ Len(c_chunks) = 3
              /\ Len(c_chunks[3]) < DefaultMaxLen

ChunkWindowsWitness ==
    /\ c_pc = "done" /\ c_text = ExampleText
    /\ c_max_len = DefaultMaxLen /\ c_overlap = DefaultOverlap
    /\ Len(c_windows) = 3

\* C6 as stated: empty text gives no chunk, and every text of a length
\* between 1 and max_len - 1 gives exactly one chunk.
ChunkShortTextOneChunk ==
    c_pc = "done" =>
        /\ Len(c_text) = 0 => c_chunks = <<>>
        /\ (0 < Len(c_text) /\ Len(c_text) < c_max_len) => Len(c_chunks) = 1

\* C6 amended: empty text gives no chunk; a text of a length between 1 and
\* max_len - 1 gives exactly one chunk when it holds a non-whitespace
\* character, and no chunk when it is all whitespace.
ChunkShortText ==
    c_pc = "done" =>
        /\ Len(c_text) = 0 => c_chunks = <<>>
        /\ (0 < Len(c_text) /\ Len(c_text) < c_max_len) =>
              IF AllSpace(c_text) THEN c_chunks = <<>>
              ELSE c_chunks = <<strip(c_text)>>

ChunkShortTextWitness ==
    /\ c_pc = "done"
    /\ Len(c_text) = 2 /\ c_max_len = 3
    /\ ~AllSpace(c_text) /\ IsSpace(c_text[1])
    /\ Len(c_chunks) = 1

\* C8: every non-whitespace position of the text lies in a window whose
\* trimmed content is a chunk; the chunks are the trimmed contents of the
\* windows that are not all whitespace, in order.
KeptWindows == SelectSeq(c_windows, LAMBDA w : ~AllSpace(WindowText(w)))

ChunkCoverage ==
    (c_pc = "done" /\ c_max_len > 0) =>
        /\ \A p \in 1..Len(c_text) :
              ~IsSpace(c_text[p]) =>
                  \E k \in 1..Len(KeptWindows) :
                      /\ KeptWindows[k][1] < p /\ p <= KeptWindows[k][2]
                      /\ k <= Len(c_chunks)
                      /\ c_chunks[k] = strip(WindowText(KeptWindows[k]))
        /\ Len(c_chunks) = Len(KeptWindows)

\* Several windows, one of them dropped, non-whitespace content in the last
ChunkCoverageWitness ==
    /\ c_pc = "done"
    /\ Len(c_windows) >= 3
    /\ Len(c_chunks) < Len(c_windows)
    /\ ~IsSpace(c_text[Len(c_text)])
    /\ c_overlap >= 1

\* ------------------------------------------------------------------------
\* ingest_pdf: inputs
\* ------------------------------------------------------------------------
\* What page.extract_text() yields for the pages of the sample documents
PageTexts == { <<>>, <<" ", "a">>, <<"a", " ", "b", "a">> }

\* A document is the sequence of its pages' raw texts
Documents == UNION {[1..k -> PageTexts] : k \in 0..MaxPages}

FileNames == {"a.pdf", "b.pdf"}
Overlaps == {0, 1}
\* datetime.now(tz=timezone.utc).isoformat() at the time of the call
Timestamps == {"2026-01-01T00:00:00+00:00"}

Arguments ==
    [ name : {"a.pdf"}, doc : Documents,
      project_name : {"Lava Ridge"}, source_link : {"https://example"},
      openai_key : BOOLEAN, turbopuffer_key : BOOLEAN, dry_run : BOOLEAN,
      batch_embed : 1..MaxBatch, write_batch : 1..MaxBatch,
      chunk_size : 0..MaxChunkSize, chunk_overlap : Overlaps ]

\* ------------------------------------------------------------------------
\* Digests, identifiers, rows
\* ------------------------------------------------------------------------
Sha1(x) == <<"sha1", x>>

\* The bytes of the file that holds a document, and b""
FileBytes(doc) == <<"%PDF", doc>>
EmptyBytes == <<>>

stable_id(fh, page_num, chunk_index) ==
    Sha1(<<fh, "::", page_num, "::", chunk_index>>)

\* extract_text_per_page: each page's text, stripped
extract_text_per_page(doc) == [p \in 1..Len(doc) |-> strip(doc[p])]

EmbeddingDim == 1536
ZeroVector == <<"zeros", EmbeddingDim>>
\* the vector the embedding model gives a text
Embedding(text) == <<"embedding", text>>

content_hash_of_length(text) == Sha1(Len(text))

\* hashlib.sha1(text.encode("utf-8")).hexdigest()
content_hash_of(text) == Sha1(text)

vector_first(vectors, j) == vectors[1]

\* vectors[j], for the 1-based position j of a chunk in its batch
vector_at(vectors, j) == vectors[j]

chunk_index_in_batch(offset, j) == j

\* chunk_index = i + j
chunk_index_of(offset, j) == offset + j

\* The row of the chunk at position j (0-based) of the batch that starts at offset
build_row(a, ts, fh, page_num, offset, j, text, vector) ==
    [ id |-> stable_id(fh, page_num, chunk_index_of(offset, j)),
      projectName |-> a.project_name,
      link |-> a.source_link,
      source_pdf |-> a.name,
      page_num |-> page_num,
      section |-> "None",
      chunk_index |-> chunk_index_of(offset, j),
      content |-> text,
      vector |-> vector,
      content_hash |-> content_hash_of(text),
      timestamp |-> ts ]

batch_of_rest(cs, offset, batch_embed) == SubSeq(cs, offset + 1, Len(cs))

\* chunks[i : i + batch_embed]
batch_of(cs, offset, batch_embed) ==
    SubSeq(cs, offset + 1, Min(offset + batch_embed, Len(cs)))

\* ------------------------------------------------------------------------
\* ingest_pdf as a state machine
\* ------------------------------------------------------------------------
Init ==
    /\ pc = "call"
    /\ args \in Arguments
    /\ pages = <<>> /\ timestamp = "" /\ source_pdf = "" /\ file_hash = <<>>
    /\ total_chunks = 0 /\ rows_buffer = <<>> /\ rows_written = 0
    /\ page_index = 0 /\ chunks = <<>> /\ i = 0
    /\ built = <<>> /\ embeds = <<>> /\ writes = <<>> /\ last_op = "none"
    /\ ChunkIdle /\ MainIdle /\ EditIdle /\ TranslateIdle

Unchanged(keep) == UNCHANGED keep /\ UNCHANGED <<cvars, mvars, evars, xvars>>

\* line 151: the pages' texts; an unreadable document raises
ExtractPages ==
    /\ pc = "call"
    /\ \E readable \in BOOLEAN :
          IF readable
          THEN /\ pages' = extract_text_per_page(args.doc)
               /\ pc' = "read"
               /\ last_op' = "extract"
          ELSE /\ pc' = "failed"
               /\ last_op' = "extract_error"
               /\ UNCHANGED pages
    /\ Unchanged(<<args, timestamp, source_pdf, file_hash, total_chunks, rows_buffer,
                   rows_written, page_index, chunks, i, built, embeds, writes>>)

\* lines 152-163: the timestamp, the file name, the file hash (of b"" when
\* reading the bytes raises) and the counters
ReadBytes ==
    /\ pc = "read"
    /\ timestamp' \in Timestamps
    /\ source_pdf' = args.name
    /\ \E read_ok \in BOOLEAN :
          /\ file_hash' = Sha1(IF read_ok THEN FileBytes(args.doc) ELSE EmptyBytes)
          /\ last_op' = IF read_ok THEN "read" ELSE "read_error"
    /\ total_chunks' = 0
    /\ rows_buffer' = <<>>
    /\ rows_written' = 0
    /\ page_index' = 0
    /\ pc' = "page"
    /\ Unchanged(<<args, pages, chunks, i, built, embeds, writes>>)

\* lines 165-171: the next page, skipped when it has no text or no chunks
NextPage ==
    /\ pc = "page"
    /\ IF page_index >= Len(pages)
       THEN /\ pc' = "final"
            /\ last_op' = "pages_done"
            /\ UNCHANGED <<page_index, chunks, i, total_chunks>>
       ELSE LET page_text == pages[page_index + 1]
                cs == chunk_text(page_text, args.chunk_size, args.chunk_overlap)
            IN  IF page_text = <<>> \/ cs = <<>>
                THEN /\ page_index' = page_index + 1
                     /\ pc' = "page"
                     /\ last_op' = "skip_page"
                     /\ chunks' = (IF page_text = <<>> THEN chunks ELSE cs)
                     /\ UNCHANGED <<i, total_chunks>>
                ELSE /\ chunks' = cs
                     /\ total_chunks' = total_chunks + Len(cs)
                     /\ i' = 0
                     /\ pc' = "batch"
                     /\ last_op' = "chunked"
                     /\ UNCHANGED page_index
    /\ Unchanged(<<args, pages, timestamp, source_pdf, file_hash, rows_buffer,
                   rows_written, built, embeds, writes>>)

\* What an embedding request can come back with: a retryable failure (rate
\* limit, timeout), a failure that is not retryable (bad request, auth), one
\* vector per text, or too few vectors
EmbedResponses == {"rate_limited", "bad_request", "vectors", "short"}

EmbedErrors == {"rate_limited", "bad_request"}

\* embed_batch_openai, lines 102-106: the vectors of a response that is no error
embed_vectors(response, batch) ==
    [j \in 1..(IF response = "vectors" THEN Len(batch) ELSE Len(batch) - 1) |->
        Embedding(batch[j])]

page_num_first(index) == 1

\* page_index + 1, enumerate(pages) counting from 0
page_num_of(index) == index + 1

\* The rows of the first m chunks of a batch
batch_rows(batch, vectors, m) ==
    [j \in 1..m |-> build_row(args, timestamp, file_hash, page_num_of(page_index), i, j - 1,
                              batch[j], vector_at(vectors, j))]

\* lines 175-202: one embedding batch and the rows built from it.  The
\* embedding request fails, answers with one vector per text, or answers with
\* too few vectors (the row whose vector is missing raises, after the rows
\* before it have been appended).
EmbedBatch ==
    /\ pc = "batch"
    /\ LET batch == batch_of(chunks, i, args.batch_embed)
       IN  IF args.dry_run
           THEN LET rows == batch_rows(batch, [j \in 1..Len(batch) |-> ZeroVector], Len(batch))
                IN  /\ rows_buffer' = rows_buffer \o rows
                    /\ built' = built \o rows
                    /\ pc' = "flush"
                    /\ last_op' = "rows"
                    /\ UNCHANGED embeds
           ELSE IF ~args.openai_key
           THEN /\ pc' = "failed"
                /\ last_op' = "no_openai_key"
                /\ UNCHANGED <<rows_buffer, built, embeds>>
           ELSE \E response \in EmbedResponses :
                   IF response \in EmbedErrors
                   THEN /\ embeds' = Append(embeds, [page_num |-> page_num_of(page_index), offset |-> i,
                                                     texts |-> batch, response |-> response,
                                                     vectors |-> <<>>])
                        /\ pc' = "failed"
                        /\ last_op' = "embed_error"
                        /\ UNCHANGED <<rows_buffer, built>>
                   ELSE LET vectors == embed_vectors(response, batch)
                            rows == batch_rows(batch, vectors, Min(Len(batch), Len(vectors)))
                        IN  /\ embeds' = Append(embeds, [page_num |-> page_num_of(page_index), offset |-> i,
                                                         texts |-> batch, response |-> response,
                                                         vectors |-> vectors])
                            /\ rows_buffer' = rows_buffer \o rows
                            /\ built' = built \o rows
                            /\ pc' = IF Len(vectors) >= Len(batch) THEN "flush" ELSE "failed"
                            /\ last_op' = IF Len(vectors) >= Len(batch) THEN "rows"
                                          ELSE "vector_missing"
    /\ Unchanged(<<args, pages, timestamp, source_pdf, file_hash, total_chunks,
                   rows_written, page_index, chunks, i, writes>>)

\* upsert_rows_turbopuffer, lines 123-131: what the call returns on a
\* response that is no error
upsert_count(response, rows) == IF response = "count" THEN Len(rows) ELSE 0

write_error_swallowed(next_pc) == next_pc

\* raise RuntimeError("Upsert failed: ..."): the call of ingest_pdf ends
write_error_pc(next_pc) == "failed"

buffer_kept(buf) == buf

\* rows_buffer.clear()
buffer_cleared(buf) == <<>>

\* The flush both flush sites perform: the key check, the write request and,
\* when it succeeds, the count and the clear
Flush(next_pc) ==
    IF ~args.turbopuffer_key
    THEN /\ pc' = "failed"
         /\ last_op' = "no_turbopuffer_key"
         /\ UNCHANGED <<rows_buffer, rows_written, writes>>
    ELSE \E response \in {"error", "count", "no_count"} :
            /\ writes' = Append(writes,
                    [rows |-> rows_buffer, ok |-> response # "error", response |-> response,
                     returned |-> IF response = "error" THEN 0
                                  ELSE upsert_count(response, rows_buffer)])
            /\ IF response = "error"
               THEN /\ pc' = write_error_pc(next_pc)
                    /\ last_op' = "write_error"
                    /\ UNCHANGED <<rows_buffer, rows_written>>
               ELSE /\ rows_written' = rows_written + upsert_count(response, rows_buffer)
                    /\ rows_buffer' = buffer_cleared(rows_buffer)
                    /\ pc' = next_pc
                    /\ last_op' = "flushed"

\* where the loops go after the batch at offset i
after_batch == IF i + args.batch_embed < Len(chunks) THEN "batch" ELSE "page"

flush_due_ignoring_dry_run(dry_run, buffered, write_batch) == buffered >= write_batch

\* line 205
flush_due(dry_run, buffered, write_batch) == ~dry_run /\ buffered >= write_batch

\* lines 204-214 and the advance of the two loops
FlushCheck ==
    /\ pc = "flush"
    /\ IF flush_due(args.dry_run, Len(rows_buffer), args.write_batch)
       THEN Flush(after_batch)
       ELSE /\ pc' = after_batch
            /\ last_op' = "no_flush"
            /\ UNCHANGED <<rows_buffer, rows_written, writes>>
    /\ IF pc' = "failed" THEN UNCHANGED <<i, page_index>>
       ELSE IF after_batch = "batch"
       THEN i' = i + args.batch_embed /\ UNCHANGED page_index
       ELSE page_index' = page_index + 1 /\ UNCHANGED i
    /\ Unchanged(<<args, pages, timestamp, source_pdf, file_hash, total_chunks,
                   chunks, built, embeds>>)

\* lines 216-227: the final flush and the return
FinalFlush ==
    /\ pc = "final"
    /\ IF ~args.dry_run /\ rows_buffer # <<>>
       THEN Flush("done")
       ELSE /\ pc' = "done"
            /\ last_op' = "return"
            /\ UNCHANGED <<rows_buffer, rows_written, writes>>
    /\ Unchanged(<<args, pages, timestamp, source_pdf, file_hash, total_chunks,
                   page_index, chunks, i, built, embeds>>)

Next == ExtractPages \/ ReadBytes \/ NextPage \/ EmbedBatch \/ FlushCheck \/ FinalFlush

Spec == Init /\ [][Next]_vars

\* ------------------------------------------------------------------------
\* Properties of ingest_pdf
\* ------------------------------------------------------------------------
RECURSIVE Flatten(_)
Flatten(ss) == IF ss = <<>> THEN <<>> ELSE Head(ss) \o Flatten(Tail(ss))

CeilDiv(a, b) == (a + b - 1) \div b

\* The rows of the write requests that succeeded, in the order submitted
Flushed == Flatten([k \in 1..Len(SelectSeq(writes, LAMBDA w : w.ok)) |->
                        SelectSeq(writes, LAMBDA w : w.ok)[k].rows])

\* C1: the write buffer never holds more than write_batch rows.
BufferBounded == Len(rows_buffer) <= args.write_batch

\* C2: a non-dry run that builds R rows makes ceil(R/W) flush calls, each
\* of W rows except the last, which holds the remainder.
FlushSizes ==
    (pc = "done" /\ ~args.dry_run) =>
        LET R == Len(built)
            W == args.write_batch
            n == Len(writes)
        IN  /\ n = CeilDiv(R, W)
            /\ \A k \in 1..n :
                  Len(writes[k].rows) = IF k < n THEN W ELSE R - W * (n - 1)

\* C3: in a non-dry run the rows flushed so far followed by the rows
\* buffered are the rows built, in order (so every row is submitted at most
\* once and in the order built), the buffer is empty right after a
\* successful flush, and on return the buffer is empty and every row built
\* has been flushed.
RowsFlushedOnce ==
    ~args.dry_run =>
        /\ Flushed \o rows_buffer = built
        /\ last_op = "flushed" => rows_buffer = <<>>
        /\ pc = "done" =>
              /\ rows_buffer = <<>>
              /\ Flushed = built
              /\ \A k \in 1..Len(writes) : writes[k].ok

RowsFlushedOnceWitness ==
    /\ pc = "done" /\ ~args.dry_run
    /\ Len(writes) >= 2
    /\ Len(built) >= 4
    /\ Len(writes[Len(writes)].rows) = 1

\* The windows of a page as the chunking rule gives them: the starts are the
\* multiples of the step up to the first window that reaches the end
WindowStarts(n, max_len, overlap) ==
    LET step == max_len - Max(0, Min(overlap, max_len - 1))
    IN  {s \in 0..(n - 1) : s % step = 0 /\ (s = 0 \/ s - step + max_len < n)}

KeptStarts(text, max_len, overlap) ==
    {s \in WindowStarts(Len(text), max_len, overlap) :
        ~AllSpace(SubSeq(text, s + 1, Min(s + max_len, Len(text))))}

\* the m-th smallest element of a set of numbers
NthOf(S, m) == CHOOSE s \in S : Cardinality({t \in S : t < s}) = m - 1

RowsOfPage(p) == SelectSeq(built, LAMBDA r : r.page_num = p)

\* C7: every chunk is non-empty and has no whitespace at either end, a
\* window of whitespace gives no chunk, and the rows of a page carry the
\* chunk_index values 0, 1, ..., k-1 in the order built, k being the number
\* of windows of the page that are not all whitespace.
ChunkIndexDense ==
    /\ \A k \in 1..Len(chunks) :
          /\ chunks[k] # <<>>
          /\ ~IsSpace(chunks[k][1]) /\ ~IsSpace(chunks[k][Len(chunks[k])])
    /\ \A p \in 1..Len(pages) :
          LET rows == RowsOfPage(p)
              kept == IF args.chunk_size > 0
                      THEN KeptStarts(pages[p], args.chunk_size, args.chunk_overlap)
                      ELSE {}
          IN  /\ \A m \in 1..Len(rows) :
                    /\ rows[m].chunk_index = m - 1
                    /\ LET s == NthOf(kept, m)
                       IN  rows[m].content =
                              strip(SubSeq(pages[p], s + 1,
                                           Min(s + args.chunk_size, Len(pages[p]))))
              /\ (p <= page_index /\ pc # "call" /\ pc # "read") =>
                    Len(rows) = Cardinality(kept)

\* A page with a dropped window whose three rows come from two embedding batches
ChunkIndexDenseWitness ==
    /\ pc = "done"
    /\ args.chunk_size = 1 /\ args.batch_embed = 2
    /\ \E p \in 1..Len(pages) :
          /\ Len(pages[p]) = 4 /\ IsSpace(pages[p][2])
          /\ Len(RowsOfPage(p)) = 3
          /\ RowsOfPage(p)[3].chunk_index = 2

PairsOf(rows) == [k \in 1..Len(rows) |-> <<rows[k].id, rows[k].content_hash>>]

PagePairs(fh, p, cs) == [k \in 1..Len(cs) |-> <<stable_id(fh, p, k - 1), Sha1(cs[k])>>]

RECURSIVE PairsFrom(_, _, _, _, _)
PairsFrom(fh, doc, p, size, overlap) ==
    IF p > Len(doc) THEN <<>>
    ELSE PagePairs(fh, p, chunk_text(strip(doc[p]), size, overlap))
            \o PairsFrom(fh, doc, p + 1, size, overlap)

\* C9: the (id, content_hash) pairs of a run that returns are determined by
\* the document's bytes and the chunking parameters alone, so two runs over
\* the same bytes with the same parameters give the same sequence.
RunPairsDetermined ==
    pc = "done" =>
        PairsOf(built) = PairsFrom(Sha1(FileBytes(args.doc)), args.doc, 1,
                                   args.chunk_size, args.chunk_overlap)

\* What holds instead: the pairs are determined by the file hash the run
\* computed (which is that of b"" when the bytes could not be read)
RunPairsFromFileHash ==
    pc = "done" =>
        PairsOf(built) = PairsFrom(file_hash, args.doc, 1,
                                   args.chunk_size, args.chunk_overlap)

\* C10: a row's id is a function of the hash of the file's bytes, the
\* 1-based page number and the chunk index alone, so the ids of a run do not
\* depend on the file's name.
IdsFromBytesOnly ==
    \A k \in 1..Len(built) :
        built[k].id = stable_id(Sha1(FileBytes(args.doc)), built[k].page_num,
                                built[k].chunk_index)

\* C13 as stated: a successful flush returns the count the index reports,
\* and the number of rows submitted when the response carries no count.
UpsertReturnsCount ==
    \A k \in 1..Len(writes) :
        writes[k].ok => writes[k].returned = Len(writes[k].rows)

RECURSIVE SumChunks(_)
SumChunks(p) ==
    IF p = 0 THEN 0
    ELSE Len(chunk_text(pages[p], args.chunk_size, args.chunk_overlap)) + SumChunks(p - 1)

\* C15: a dry run makes no embedding request and no index write, raises no
\* credential error whatever keys are missing, gives every row the zero
\* vector, and returns rows_written = 0 and total_chunks = the sum of the
\* pages' chunk counts (6 for two pages of 3 chunks each).
DryRunOffline ==
    args.dry_run =>
        /\ embeds = <<>> /\ writes = <<>>
        /\ rows_written = 0
        /\ \A k \in 1..Len(built) : built[k].vector = ZeroVector
        /\ pc = "failed" => last_op = "extract_error"
        /\ pc = "done" =>
              /\ total_chunks = SumChunks(Len(pages))
              /\ total_chunks = Len(built)
              /\ (/\ Len(pages) = 2
                  /\ \A p \in 1..2 : Len(RowsOfPage(p)) = 3) => total_chunks = 6

DryRunOfflineWitness ==
    /\ pc = "done" /\ args.dry_run
    /\ ~args.openai_key /\ ~args.turbopuffer_key
    /\ Len(pages) = 2 /\ Len(RowsOfPage(1)) = 3 /\ Len(RowsOfPage(2)) = 3
    /\ total_chunks = 6 /\ rows_written = 0

\* C16 as stated: a non-dry run that lacks the embedding key or the write key
\* makes no network call.
CredentialsBeforeNetwork ==
    (~args.dry_run /\ (~args.openai_key \/ ~args.turbopuffer_key)) =>
        embeds = <<>> /\ writes = <<>>

RECURSIVE SumReturned(_)
SumReturned(ws) ==
    IF ws = <<>> THEN 0
    ELSE (IF Head(ws).ok THEN Head(ws).returned ELSE 0) + SumReturned(Tail(ws))

\* C18: a failed write is the last request of the call: the call has ended
\* in failure with it, so no embedding request and no write follows and the
\* failed batch is not submitted again; the writes that succeeded before it
\* stay as they were, and rows_written still counts them.
WriteErrorAborts ==
    /\ \A k \in 1..Len(writes) :
          ~writes[k].ok =>
              /\ k = Len(writes)
              /\ pc = "failed" /\ last_op = "write_error"
              /\ rows_buffer = writes[k].rows
              /\ \A e \in 1..Len(embeds) : embeds[e].response = "vectors"
    /\ pc = "failed" => \A k \in 1..(Len(writes) - 1) : writes[k].ok
    /\ rows_written = SumReturned(writes)

\* A write fails after an earlier one succeeded, with chunks still to embed
WriteErrorAbortsWitness ==
    /\ pc = "failed" /\ last_op = "write_error"
    /\ Len(writes) = 2 /\ writes[1].ok /\ writes[1].returned > 0
    /\ i + args.batch_embed < Len(chunks)

\* C19 as stated: the call fails on an embedding error only when the error
\* is not retryable or the request has been tried more than once.
EmbedRetried ==
    (pc = "failed" /\ last_op = "embed_error") =>
        LET e == embeds[Len(embeds)]
        IN  \/ e.response = "bad_request"
            \/ Cardinality({k \in 1..Len(embeds) :
                              /\ embeds[k].page_num = e.page_num
                              /\ embeds[k].offset = e.offset}) > 1

\* C20: in a non-dry run every row carries the vector its embedding response
\* holds at the position of the row's chunk in the request, its chunk_index
\* is the chunk's position in the page's chunk list, and a response with too
\* few vectors ends the call in failure with only rightly paired rows built.
VectorsJoined ==
    ~args.dry_run =>
        /\ \A p \in 1..Len(pages) :
              \/ \A k \in 1..Len(built) : built[k].page_num # p
              \/ LET cs == chunk_text(pages[p], args.chunk_size, args.chunk_overlap)
                 IN  \A k \in 1..Len(built) :
                        built[k].page_num = p =>
                            /\ built[k].chunk_index + 1 <= Len(cs)
                            /\ built[k].content = cs[built[k].chunk_index + 1]
        /\ \A k \in 1..Len(built) :
              \E e \in 1..Len(embeds) :
                  LET j == built[k].chunk_index - embeds[e].offset + 1
                  IN  /\ embeds[e].page_num = built[k].page_num
                      /\ j \in 1..Len(embeds[e].vectors)
                      /\ embeds[e].texts[j] = built[k].content
                      /\ embeds[e].vectors[j] = built[k].vector
        /\ \A e \in 1..Len(embeds) :
              Len(embeds[e].vectors) < Len(embeds[e].texts) =>
                  /\ e = Len(embeds)
                  /\ pc = "failed"
                  /\ Len(SelectSeq(built, LAMBDA r :
                            /\ r.page_num = embeds[e].page_num
                            /\ r.chunk_index >= embeds[e].offset)) = Len(embeds[e].vectors)

\* Two chunks with different texts in one request, after an earlier request
VectorsJoinedWitness ==
    /\ pc = "done" /\ ~args.dry_run
    /\ \E e \in 1..Len(embeds) :
          /\ Len(embeds[e].texts) = 2
          /\ embeds[e].vectors[1] # embeds[e].vectors[2]
          /\ \E k \in 1..Len(built) :
                /\ built[k].page_num = embeds[e].page_num
                /\ built[k].chunk_index = embeds[e].offset + 1
                /\ built[k].vector = embeds[e].vectors[2]

\* ------------------------------------------------------------------------
\* One page ingested before and after one of its characters is replaced
\* ------------------------------------------------------------------------
EditChars == Chars \cup {"\t"}

\* The page texts ingest_pdf hands to chunk_text: stripped and not empty
StrippedTexts == {t \in TextsUpTo(MaxTextLen) : t # <<>> /\ strip(t) = t}

replace_char(text, pos, ch) == [text EXCEPT ![pos] = ch]

\* lines 168 and 185-188, 196: the chunk_index and the content_hash of the
\* rows of one page, each with the start of the window it was cut from
page_rows(text, max_len, overlap) ==
    LET cs == chunk_text(text, max_len, overlap)
        kept == IF max_len > 0 THEN KeptStarts(text, max_len, overlap) ELSE {}
    IN  [k \in 1..Len(cs) |->
            [ chunk_index |-> chunk_index_of(0, k - 1),
              content |-> cs[k],
              content_hash |-> content_hash_of(cs[k]),
              window |-> NthOf(kept, k) ]]

InitEdit ==
    /\ e_pc = "original"
    /\ e_text \in StrippedTexts
    /\ e_pos \in 1..Len(e_text)
    /\ e_char \in EditChars
    /\ e_char # e_text[e_pos]
    /\ replace_char(e_text, e_pos, e_char) \in StrippedTexts
    /\ e_max_len \in 0..MaxLen
    /\ e_overlap \in Overlaps
    /\ e_before = <<>> /\ e_after = <<>>
    /\ ChunkIdle /\ IngestIdle /\ MainIdle /\ TranslateIdle

\* the page as it is
IngestOriginal ==
    /\ e_pc = "original"
    /\ e_before' = page_rows(e_text, e_max_len, e_overlap)
    /\ e_pc' = "edited"
    /\ UNCHANGED <<e_text, e_pos, e_char, e_max_len, e_overlap, e_after>>
    /\ UNCHANGED <<cvars, ivars, mvars, xvars>>

\* the page with the character replaced, same parameters
IngestEdited ==
    /\ e_pc = "edited"
    /\ e_after' = page_rows(replace_char(e_text, e_pos, e_char), e_max_len, e_overlap)
    /\ e_pc' = "done"
    /\ UNCHANGED <<e_text, e_pos, e_char, e_max_len, e_overlap, e_before>>
    /\ UNCHANGED <<cvars, ivars, mvars, xvars>>

NextEdit == IngestOriginal \/ IngestEdited

SpecEdit == InitEdit /\ [][NextEdit]_vars

EditStarts == IF e_max_len > 0 THEN WindowStarts(Len(e_text), e_max_len, e_overlap) ELSE {}

\* the window that starts at s (0-based) holds the edited position (1-based)
HoldsEdit(s) == s < e_pos /\ e_pos <= Min(s + e_max_len, Len(e_text))

RowsAt(rows, s) == {rows[k] : k \in {m \in 1..Len(rows) : rows[m].window = s}}
HashAt(rows, s) == {r.content_hash : r \in RowsAt(rows, s)}
ContentAt(rows, s) == {r.content : r \in RowsAt(rows, s)}
IndexAt(rows, s) == {r.chunk_index : r \in RowsAt(rows, s)}
KeptOf(rows) == {rows[k].window : k \in 1..Len(rows)}

\* C12 as stated: after the replacement of one character at least one chunk
\* whose window holds the edited position has a different content_hash, and
\* every chunk whose window does not hold it keeps its chunk_index and its
\* content_hash (checked for chunk_size > 0, where the page has windows).
EditChangesOnlyAffected ==
    (e_pc = "done" /\ e_max_len > 0) =>
        /\ \E s \in EditStarts :
              HoldsEdit(s) /\ HashAt(e_before, s) # HashAt(e_after, s)
        /\ \A s \in EditStarts :
              ~HoldsEdit(s) => /\ HashAt(e_before, s) = HashAt(e_after, s)
                               /\ IndexAt(e_before, s) = IndexAt(e_after, s)

\* C12 amended: with chunk_size > 0, a window that does not hold the edited
\* position gives the same chunk content and content_hash as before, and a
\* content_hash differs exactly when the chunk's content differs; when no
\* window turns all whitespace or stops being all whitespace, the chunks of
\* those windows also keep their chunk_index and, if the old or the new
\* character is not whitespace, every chunk whose window holds the position
\* (there is one) has a different content_hash.
EditIsLocal ==
    (e_pc = "done" /\ e_max_len > 0) =>
        /\ \A s \in EditStarts :
              /\ ~HoldsEdit(s) => /\ ContentAt(e_before, s) = ContentAt(e_after, s)
                                  /\ HashAt(e_before, s) = HashAt(e_after, s)
              /\ (HashAt(e_before, s) = HashAt(e_after, s))
                    <=> (ContentAt(e_before, s) = ContentAt(e_after, s))
        /\ KeptOf(e_before) = KeptOf(e_after) =>
              /\ \A s \in EditStarts :
                    ~HoldsEdit(s) => IndexAt(e_before, s) = IndexAt(e_after, s)
              /\ (~IsSpace(e_text[e_pos]) \/ ~IsSpace(e_char)) =>
                    /\ \E s \in KeptOf(e_after) : HoldsEdit(s)
                    /\ \A s \in KeptOf(e_after) :
                          HoldsEdit(s) => HashAt(e_before, s) # HashAt(e_after, s)

\* A letter replaced by another in the first of two chunks: the first chunk's
\* hash differs, the second keeps chunk_index 1 and its hash
EditIsLocalWitness ==
    /\ e_pc = "done"
    /\ ~IsSpace(e_text[e_pos]) /\ ~IsSpace(e_char)
    /\ Len(e_before) = 2 /\ Len(e_after) = 2
    /\ KeptOf(e_before) = KeptOf(e_after)
    /\ HoldsEdit(e_after[1].window) /\ ~HoldsEdit(e_after[2].window)
    /\ e_after[1].content_hash # e_before[1].content_hash
    /\ e_after[2].chunk_index = 1
    /\ e_after[2].content_hash = e_before[2].content_hash

\* ------------------------------------------------------------------------
\* main: one run over the documents of a directory
\* ------------------------------------------------------------------------
\* The documents of the sample directories, one page each
MainDocuments == { << <<"a", " ", "b", "a">> >>, << <<" ", "a">> >> }

\* A directory: whether it exists, and the document of each of its .pdf files
Directories ==
    {[exists |-> FALSE, files |-> <<>>]}
      \cup {[exists |-> TRUE, files |-> f] :
                f \in UNION {[N -> MainDocuments] : N \in SUBSET FileNames}}

\* --max-pdfs: absent (None), or a number
MaxPdfsOptions == {<<>>, <<0>>, <<1>>, <<-1>>}

\* The command line (lines 232-243) and the keys of the environment (line 245)
MainArguments ==
    [ project_name : {"Lava Ridge"}, source_link : {"https://example"},
      openai_key : BOOLEAN, turbopuffer_key : BOOLEAN, dry_run : BOOLEAN,
      batch_embed : 1..MaxBatch, write_batch : 1..MaxBatch,
      chunk_size : {MaxChunkSize}, chunk_overlap : {0},
      max_pdfs : MaxPdfsOptions ]

\* the order of the paths
NameRank(name) == CASE name = "a.pdf" -> 1 [] name = "b.pdf" -> 2

RECURSIVE sorted(_)
sorted(S) ==
    IF S = {} THEN <<>>
    ELSE LET least == CHOOSE x \in S : \A y \in S : NameRank(x) <= NameRank(y)
         IN  <<least>> \o sorted(S \ {least})

\* sorted(p for p in directory.rglob("*.pdf") if p.is_file())
list_pdfs(dir) == sorted(DOMAIN dir.files)

\* seq[:n]
slice_to(seq, n) ==
    IF n >= 0 THEN SubSeq(seq, 1, Min(n, Len(seq)))
    ELSE SubSeq(seq, 1, Max(0, Len(seq) + n))

\* lines 253-255
selected_pdfs(dir, a) ==
    IF a.max_pdfs = <<>> THEN list_pdfs(dir) ELSE slice_to(list_pdfs(dir), a.max_pdfs[1])

\* lines 274-286: the arguments main passes to ingest_pdf
ingest_args(name) ==
    [ name |-> name, doc |-> directory.files[name],
      project_name |-> m_args.project_name, source_link |-> m_args.source_link,
      openai_key |-> m_args.openai_key, turbopuffer_key |-> m_args.turbopuffer_key,
      dry_run |-> m_args.dry_run,
      batch_embed |-> m_args.batch_embed, write_batch |-> m_args.write_batch,
      chunk_size |-> m_args.chunk_size, chunk_overlap |-> m_args.chunk_overlap ]

exception_propagates(next_pc) == "exit1"

\* except Exception as exc: log(...), and the loop goes on
after_exception(next_pc) == next_pc

\* Where the ids of the rows a call built come from
LoggedIds(rows, bytes) ==
    {[id |-> rows[k].id, bytes |-> bytes, page_num |-> rows[k].page_num,
      chunk_index |-> rows[k].chunk_index] : k \in 1..Len(rows)}

\* the frame of the call of ingest_pdf is gone
IngestLeft ==
    /\ pc' = "idle" /\ args' = <<>> /\ pages' = <<>> /\ timestamp' = ""
    /\ source_pdf' = "" /\ file_hash' = <<>> /\ total_chunks' = 0
    /\ rows_buffer' = <<>> /\ rows_written' = 0 /\ page_index' = 0
    /\ chunks' = <<>> /\ i' = 0 /\ built' = <<>> /\ embeds' = <<>>
    /\ writes' = <<>> /\ last_op' = "none"

InitMain ==
    /\ m_pc = "start"
    /\ directory \in Directories
    /\ m_args \in MainArguments
    /\ pdfs = <<>> /\ idx = 0
    /\ m_total_chunks = 0 /\ total_written = 0
    /\ attempts = <<>> /\ outcomes = <<>> /\ id_log = {} /\ flush_sum = 0
    /\ IngestIdle /\ ChunkIdle /\ EditIdle /\ TranslateIdle

\* lines 248-269: the directory test, the selection and the totals
MainStart ==
    /\ m_pc = "start"
    /\ IF ~directory.exists
       THEN m_pc' = "exit1" /\ UNCHANGED pdfs
       ELSE m_pc' = "loop" /\ pdfs' = selected_pdfs(directory, m_args)
    /\ UNCHANGED <<directory, m_args, idx, m_total_chunks, total_written,
                   attempts, outcomes, id_log, flush_sum>>
    /\ UNCHANGED <<cvars, ivars, evars, xvars>>

\* lines 271-286: the next document and the call of ingest_pdf
MainCall ==
    /\ m_pc = "loop"
    /\ idx < Len(pdfs)
    /\ idx' = idx + 1
    /\ attempts' = Append(attempts, pdfs[idx + 1])
    /\ args' = ingest_args(pdfs[idx + 1])
    /\ pc' = "call"
    /\ m_pc' = "ingest"
    /\ UNCHANGED <<directory, m_args, pdfs, m_total_chunks, total_written,
                   outcomes, id_log, flush_sum>>
    /\ UNCHANGED <<pages, timestamp, source_pdf, file_hash, total_chunks, rows_buffer,
                   rows_written, page_index, chunks, i, built, embeds, writes, last_op>>
    /\ UNCHANGED <<cvars, evars, xvars>>

\* lines 287-289: ingest_pdf returned
MainReturn ==
    /\ m_pc = "ingest"
    /\ pc = "done"
    /\ m_total_chunks' = m_total_chunks + total_chunks
    /\ total_written' = total_written + rows_written
    /\ outcomes' = Append(outcomes, [ok |-> TRUE, chunks |-> total_chunks,
                                     written |-> rows_written])
    /\ id_log' = id_log \cup LoggedIds(built, FileBytes(args.doc))
    /\ flush_sum' = flush_sum + SumReturned(writes)
    /\ m_pc' = "loop"
    /\ IngestLeft
    /\ UNCHANGED <<directory, m_args, pdfs, idx, attempts>>
    /\ UNCHANGED <<cvars, evars, xvars>>

\* lines 290-291: ingest_pdf raised
MainExcept ==
    /\ m_pc = "ingest"
    /\ pc = "failed"
    /\ outcomes' = Append(outcomes, [ok |-> FALSE, chunks |-> total_chunks,
                                     written |-> rows_written])
    /\ id_log' = id_log \cup LoggedIds(built, FileBytes(args.doc))
    /\ flush_sum' = flush_sum + SumReturned(writes)
    /\ m_pc' = after_exception("loop")
    /\ IngestLeft
    /\ UNCHANGED <<directory, m_args, pdfs, idx, m_total_chunks, total_written, attempts>>
    /\ UNCHANGED <<cvars, evars, xvars>>

\* lines 293-300: the summary, after the last document
MainSummary ==
    /\ m_pc = "loop"
    /\ idx >= Len(pdfs)
    /\ m_pc' = "summary"
    /\ UNCHANGED <<directory, m_args, pdfs, idx, m_total_chunks, total_written,
                   attempts, outcomes, id_log, flush_sum>>
    /\ UNCHANGED <<cvars, ivars, evars, xvars>>

NextMain == MainStart \/ MainCall \/ Next \/ MainReturn \/ MainExcept \/ MainSummary

SpecMain == InitMain /\ [][NextMain]_vars

\* Every step of the run returns: the requests carry timeouts (lines 102, 123)
SpecMainFair == SpecMain /\ WF_vars(NextMain)

\* ------------------------------------------------------------------------
\* Properties of main
\* ------------------------------------------------------------------------
\* C11 as stated: two rows have the same id only if they come from documents
\* of identical bytes and have the same page number and chunk index, also
\* when reading the bytes of a document failed after its text was extracted.
RowIdsInjective ==
    \A r1 \in id_log : \A r2 \in id_log :
        r1.id = r2.id => /\ r1.bytes = r2.bytes
                         /\ r1.page_num = r2.page_num
                         /\ r1.chunk_index = r2.chunk_index

\* C14 as stated: the summary's total_rows_written is the sum of the counts
\* returned by every successful flush of the run, those of documents that
\* failed later included.
SummaryCountsEveryFlush ==
    m_pc = "summary" => total_written = flush_sum

RECURSIVE SumOk(_, _)
SumOk(os, field) ==
    IF os = <<>> THEN 0
    ELSE (IF Head(os).ok THEN Head(os)[field] ELSE 0) + SumOk(Tail(os), field)

\* how many documents --max-pdfs leaves of count
SelectedCount(count) ==
    IF m_args.max_pdfs = <<>> THEN count
    ELSE IF m_args.max_pdfs[1] >= 0 THEN Min(m_args.max_pdfs[1], count)
    ELSE Max(0, count + m_args.max_pdfs[1])

RunAttemptsInOrder ==
    (directory.exists /\ m_pc # "start") =>
        /\ m_pc # "exit1"
        /\ \A k \in 1..Len(pdfs) : \A l \in 1..Len(pdfs) :
              k < l => NameRank(pdfs[k]) < NameRank(pdfs[l])
        /\ {pdfs[k] : k \in 1..Len(pdfs)} =
              {f \in DOMAIN directory.files :
                  Cardinality({g \in DOMAIN directory.files : NameRank(g) < NameRank(f)})
                      < SelectedCount(Cardinality(DOMAIN directory.files))}
        /\ attempts = SubSeq(pdfs, 1, idx)
        /\ Len(outcomes) = (IF m_pc = "ingest" THEN idx - 1 ELSE idx)
        /\ m_total_chunks = SumOk(outcomes, "chunks")
        /\ total_written = SumOk(outcomes, "written")
        /\ m_pc = "summary" => attempts = pdfs

\* C17: when the directory exists the run attempts the selected documents
\* once each in sorted order, whatever the earlier ones did, never takes the
\* failure exit and reaches the summary; the totals are the sums over the
\* documents that returned, a failed document adds nothing.
RunReachesSummary ==
    /\ []RunAttemptsInOrder
    /\ [](directory.exists => <>(m_pc = "summary"))

\* Two documents, the first failed after a successful write, the second
\* returned: the summary counts the second only
RunReachesSummaryWitness ==
    /\ m_pc = "summary"
    /\ attempts = <<"a.pdf", "b.pdf">>
    /\ ~outcomes[1].ok /\ outcomes[1].chunks > 0 /\ outcomes[1].written > 0
    /\ outcomes[2].ok /\ outcomes[2].chunks > 0 /\ outcomes[2].written > 0
    /\ m_total_chunks = outcomes[2].chunks
    /\ total_written = outcomes[2].written

\* ------------------------------------------------------------------------
\* Embedding batches and skipped pages of ingest_pdf
\* ------------------------------------------------------------------------
EmbedsOfPage(p) == SelectSeq(embeds, LAMBDA e : e.page_num = p)

\* the pages whose loop iteration is over
PageFinished(p) == pc = "done" \/ (p <= page_index /\ pc \notin {"call", "read"})

\* C22: the embedding requests of a page partition its chunk list in order:
\* each holds 1 to batch_embed chunks of that page, only the last one of the
\* page may hold fewer than batch_embed, their concatenation is the page's
\* chunk list; a call that returns built as many rows as its total_chunks.
EmbedRequestsPartition ==
    /\ \A p \in 1..Len(pages) :
          LET es == EmbedsOfPage(p)
              cs == chunk_text(pages[p], args.chunk_size, args.chunk_overlap)
          IN  /\ \A k \in 1..Len(es) :
                    /\ Len(es[k].texts) >= 1
                    /\ Len(es[k].texts) <= args.batch_embed
                    /\ es[k].offset = (k - 1) * args.batch_embed
                    /\ es[k].texts = SubSeq(cs, es[k].offset + 1,
                                            es[k].offset + Len(es[k].texts))
                    /\ Len(es[k].texts) < args.batch_embed =>
                          k = Len(es) /\ es[k].offset + Len(es[k].texts) = Len(cs)
              /\ (~args.dry_run /\ PageFinished(p)) =>
                    Flatten([k \in 1..Len(es) |-> es[k].texts]) = cs
    /\ \A k \in 1..Len(embeds) : embeds[k].page_num \in 1..Len(pages)
    /\ pc = "done" => Len(built) = total_chunks

\* A page of three chunks embedded by requests of two and of one
EmbedRequestsPartitionWitness ==
    /\ pc = "done" /\ ~args.dry_run
    /\ args.batch_embed = 2
    /\ \E p \in 1..Len(pages) :
          /\ Len(EmbedsOfPage(p)) = 2
          /\ Len(EmbedsOfPage(p)[1].texts) = 2
          /\ Len(EmbedsOfPage(p)[2].texts) = 1
    /\ total_chunks = Len(built) /\ total_chunks >= 3

FailureOps == {"extract_error", "no_openai_key", "embed_error", "vector_missing",
               "no_turbopuffer_key", "write_error"}

\* C23: a page without text or without chunks gives no embedding request,
\* no row and no error, and every row's page_num is the 1-based position of
\* its page among the extracted pages, skipped pages counted.
EmptyPagesSkipped ==
    /\ \A p \in 1..Len(pages) :
          LET cs == chunk_text(pages[p], args.chunk_size, args.chunk_overlap)
          IN  /\ (pages[p] = <<>> \/ cs = <<>>) =>
                    RowsOfPage(p) = <<>> /\ EmbedsOfPage(p) = <<>>
              /\ \A m \in 1..Len(RowsOfPage(p)) :
                    /\ RowsOfPage(p)[m].chunk_index + 1 \in 1..Len(cs)
                    /\ RowsOfPage(p)[m].content = cs[RowsOfPage(p)[m].chunk_index + 1]
              /\ pc = "done" => Len(RowsOfPage(p)) = Len(cs)
    /\ \A k \in 1..Len(built) :
          /\ built[k].page_num \in 1..Len(pages)
          /\ \A l \in 1..Len(built) : k < l => built[k].page_num <= built[l].page_num
    /\ last_op = "skip_page" => pc = "page"
    /\ pc = "failed" => last_op \in FailureOps

\* An empty first page, and the rows of the second page numbered 2
EmptyPagesSkippedWitness ==
    /\ pc = "done" /\ ~args.dry_run
    /\ Len(pages) = 2 /\ pages[1] = <<>>
    /\ built # <<>> /\ embeds # <<>>
    /\ \A k \in 1..Len(built) : built[k].page_num = 2
    /\ \A k \in 1..Len(embeds) : embeds[k].page_num = 2

\* ------------------------------------------------------------------------
\* OpenAITranslator.translate (src/translate/translate_files.py) called by
\* the worker threads of the executors
\* ------------------------------------------------------------------------
MaxCalls == 2

Threads == {"t1", "t2"}

\* where an attribute of a shared object can live
Slots == Threads \cup {"shared"}

slot_shared(t) == "shared"

\* _OPENAI_THREAD_LOCAL = threading.local(): each thread has its own attributes
slot_of(t) == t

\* delay_seconds = 0.5, in milliseconds
InitialDelay == 500

\* the cap 8.0 of the delay, in milliseconds
MaxDelay == 8000

\* range(6)
Attempts == 6

delay_kept(delay) == delay

\* delay_seconds = min(8.0, delay_seconds * 2)
next_delay(delay) == Min(MaxDelay, delay * 2)

\* What a request can end with: a text, no content, an error of the classes
\* caught for retry (RateLimitError, APITimeoutError, APIError), any other
\* exception
Outcomes == {"content", "empty", "retryable", "other"}

InitThreads ==
    /\ t_pc = [t \in Threads |-> "idle"]
    /\ api_key \in BOOLEAN
    /\ thread_local = [sl \in Slots |-> 0]
    /\ client = [t \in Threads |-> 0]
    /\ attempt = [t \in Threads |-> 0]
    /\ delay_seconds = [t \in Threads |-> 0]
    /\ t_calls = [t \in Threads |-> 0]
    /\ built_by = <<>>
    /\ used_by = {}
    /\ responses = [t \in Threads |-> <<>>]
    /\ slept = [t \in Threads |-> <<>>]
    /\ ChunkIdle /\ IngestIdle /\ MainIdle /\ EditIdle /\ ParagraphsIdle /\ FilesIdle

ThreadsFrame == UNCHANGED <<cvars, ivars, mvars, evars, pvars, fvars>>

\* lines 68-71: a worker calls translate; without the key it raises at once
TranslateCall(t) ==
    /\ t_pc[t] \in {"idle", "returned", "raised"}
    /\ t_calls[t] < MaxCalls
    /\ t_calls' = [t_calls EXCEPT ![t] = @ + 1]
    /\ t_pc' = [t_pc EXCEPT ![t] = IF api_key THEN "getattr" ELSE "raised"]
    /\ responses' = [responses EXCEPT ![t] = <<>>]
    /\ slept' = [slept EXCEPT ![t] = <<>>]
    /\ client' = [client EXCEPT ![t] = 0]
    /\ attempt' = [attempt EXCEPT ![t] = 0]
    /\ delay_seconds' = [delay_seconds EXCEPT ![t] = 0]
    /\ UNCHANGED <<api_key, thread_local, built_by, used_by>>
    /\ ThreadsFrame

\* lines 81-82 (and 92-93 when a client is there)
GetClient(t) ==
    /\ t_pc[t] = "getattr"
    /\ client' = [client EXCEPT ![t] = thread_local[slot_of(t)]]
    /\ IF thread_local[slot_of(t)] = 0
       THEN /\ t_pc' = [t_pc EXCEPT ![t] = "construct"]
            /\ UNCHANGED <<delay_seconds, attempt>>
       ELSE /\ t_pc' = [t_pc EXCEPT ![t] = "loop"]
            /\ delay_seconds' = [delay_seconds EXCEPT ![t] = InitialDelay]
            /\ attempt' = [attempt EXCEPT ![t] = 0]
    /\ UNCHANGED <<api_key, thread_local, t_calls, built_by, used_by, responses, slept>>
    /\ ThreadsFrame

\* line 83: client = OpenAI(api_key=api_key)
ConstructClient(t) ==
    /\ t_pc[t] = "construct"
    /\ built_by' = Append(built_by, t)
    /\ client' = [client EXCEPT ![t] = Len(built_by) + 1]
    /\ t_pc' = [t_pc EXCEPT ![t] = "store"]
    /\ UNCHANGED <<api_key, thread_local, attempt, delay_seconds, t_calls, used_by,
                   responses, slept>>
    /\ ThreadsFrame

\* lines 84-93: the client is kept, the delay and the loop start
StoreClient(t) ==
    /\ t_pc[t] = "store"
    /\ thread_local' = [thread_local EXCEPT ![slot_of(t)] = client[t]]
    /\ delay_seconds' = [delay_seconds EXCEPT ![t] = InitialDelay]
    /\ attempt' = [attempt EXCEPT ![t] = 0]
    /\ t_pc' = [t_pc EXCEPT ![t] = "loop"]
    /\ UNCHANGED <<api_key, client, t_calls, built_by, used_by, responses, slept>>
    /\ ThreadsFrame

\* lines 94-109, 113-114: one request and what follows its outcome
Request(t) ==
    /\ t_pc[t] = "loop"
    /\ attempt[t] < Attempts
    /\ \E outcome \in Outcomes :
          /\ responses' = [responses EXCEPT ![t] = Append(@, outcome)]
          /\ t_pc' = [t_pc EXCEPT ![t] =
                         IF outcome \in {"content", "empty"} THEN "returned"
                         ELSE IF outcome = "other" THEN "raised"
                         ELSE IF attempt[t] = Attempts - 1 THEN "raised"
                         ELSE "sleep"]
    /\ used_by' = used_by \cup {<<client[t], t>>}
    /\ UNCHANGED <<api_key, thread_local, client, attempt, delay_seconds, t_calls,
                   built_by, slept>>
    /\ ThreadsFrame

\* lines 111-112 and the next round of the loop
SleepAndRetry(t) ==
    /\ t_pc[t] = "sleep"
    /\ slept' = [slept EXCEPT ![t] = Append(@, delay_seconds[t])]
    /\ delay_seconds' = [delay_seconds EXCEPT ![t] = next_delay(@)]
    /\ attempt' = [attempt EXCEPT ![t] = @ + 1]
    /\ t_pc' = [t_pc EXCEPT ![t] = "loop"]
    /\ UNCHANGED <<api_key, thread_local, client, t_calls, built_by, used_by, responses>>
    /\ ThreadsFrame

NextThreads ==
    \/ \E t \in Threads : TranslateCall(t)
    \/ \E t \in Threads : GetClient(t)
    \/ \E t \in Threads : ConstructClient(t)
    \/ \E t \in Threads : StoreClient(t)
    \/ \E t \in Threads : Request(t)
    \/ \E t \in Threads : SleepAndRetry(t)

SpecThreads == InitThreads /\ [][NextThreads]_vars

\* C21: each thread constructs at most one client and makes its requests
\* with the client it constructed; no client is used by two threads.
ClientOwnedByThread ==
    /\ \A t \in Threads :
          Cardinality({c \in 1..Len(built_by) : built_by[c] = t}) <= 1
    /\ \A u \in used_by :
          /\ u[1] \in 1..Len(built_by)
          /\ built_by[u[1]] = u[2]
    /\ \A u1 \in used_by : \A u2 \in used_by : u1[1] = u2[1] => u1[2] = u2[2]

\* Both threads in their second call, each with the client of its first
ClientOwnedByThreadWitness ==
    /\ \A t \in Threads :
          /\ t_calls[t] = 2
          /\ t_pc[t] = "returned"
          /\ client[t] # 0
    /\ Len(built_by) = 2
    /\ Cardinality(used_by) = 2

\* the delays of the claim, in milliseconds
ClaimedDelays == <<500, 1000, 2000, 4000, 8000>>

\* C24: a call makes at most 6 requests; each of the first 5 retryable
\* failures is followed by a sleep of 0.5, 1, 2, 4, 8 seconds and a retry,
\* the 6th is raised without a sleep, any other exception is raised at once
\* and the first response ends the loop.
TranslateRetries ==
    \A t \in Threads :
        LET rs == responses[t]
            n == Len(rs)
        IN  /\ n <= 6
            /\ \A k \in 1..(n - 1) : rs[k] = "retryable"
            /\ Len(slept[t]) <= 5
            /\ \A k \in 1..Len(slept[t]) : slept[t][k] = ClaimedDelays[k]
            /\ t_pc[t] = "loop" => n = Len(slept[t]) /\ n <= 5
            /\ t_pc[t] = "sleep" =>
                  n = Len(slept[t]) + 1 /\ n <= 5 /\ rs[n] = "retryable"
            /\ (t_pc[t] = "returned") =>
                  n = Len(slept[t]) + 1 /\ rs[n] \in {"content", "empty"}
            /\ (t_pc[t] = "raised" /\ api_key) =>
                  /\ n = Len(slept[t]) + 1
                  /\ rs[n] \in {"retryable", "other"}
                  /\ rs[n] = "retryable" => n = 6
            /\ (t_pc[t] = "raised" /\ ~api_key) => n = 0

\* Five sleeps, then the sixth failure raised
TranslateRetriesWitness ==
    \E t \in Threads :
        /\ t_pc[t] = "raised"
        /\ Len(responses[t]) = 6
        /\ slept[t] = ClaimedDelays

\* ------------------------------------------------------------------------
\* translate_paragraphs (src/translate/translate_files.py)
\* ------------------------------------------------------------------------
MaxParas == 3
MaxWorkers == 2

\* The paragraph texts of the sample documents
ParaTexts == { <<>>, <<"a">>, <<" ", "b">>, <<"a", "\n", "b">> }

ParagraphLists == UNION {[1..k -> ParaTexts] : k \in 0..MaxParas}

\* --max-chunk-chars
ChunkChars == {3, 5}

\* How the translation service answers: line by line, with the lines merged
\* into one, or with no content
Translators == {"linewise", "merging", "silent"}

RECURSIVE join(_, _)
\* sep.join(parts)
join(parts, sep) ==
    IF parts = <<>> THEN <<>>
    ELSE IF Len(parts) = 1 THEN parts[1]
    ELSE parts[1] \o sep \o join(Tail(parts), sep)

RECURSIVE splitlines(_)
\* text.splitlines()
splitlines(text) ==
    IF text = <<>> THEN <<>>
    ELSE LET breaks == {k \in 1..Len(text) : text[k] = "\n"}
         IN  IF breaks = {} THEN <<text>>
             ELSE LET k == CHOOSE b \in breaks : \A c \in breaks : b <= c
                  IN  <<SubSeq(text, 1, k - 1)>> \o splitlines(SubSeq(text, k + 1, Len(text)))

RECURSIVE strip_newlines(_)
\* text.strip("\n")
strip_newlines(text) ==
    IF text # <<>> /\ text[1] = "\n" THEN strip_newlines(Tail(text))
    ELSE IF text # <<>> /\ text[Len(text)] = "\n"
    THEN strip_newlines(SubSeq(text, 1, Len(text) - 1))
    ELSE text

RECURSIVE paragraph_chunks(_, _, _, _, _)
\* lines 40-53 of chunk_text: the paragraphs gathered into chunks
paragraph_chunks(ps, k, current, current_len, max_chars) ==
    IF k > Len(ps)
    THEN (IF current # <<>> THEN <<strip_newlines(join(current, <<"\n">>))>> ELSE <<>>)
    ELSE LET add_len == Len(ps[k]) + 1
         IN  IF current # <<>> /\ current_len + add_len > max_chars
             THEN <<strip_newlines(join(current, <<"\n">>))>>
                     \o paragraph_chunks(ps, k + 1, <<ps[k]>>, add_len, max_chars)
             ELSE paragraph_chunks(ps, k + 1, Append(current, ps[k]),
                                   current_len + add_len, max_chars)

\* chunk_text of the translation workflow, lines 33-56
translate_chunk_text(text, max_chars) ==
    LET lines == splitlines(text)
        paragraphs == [k \in 1..Len(lines) |-> strip(lines[k])]
    IN  SelectSeq(paragraph_chunks(paragraphs, 1, <<>>, 0, max_chars),
                  LAMBDA c : strip(c) # <<>>)

Upper(ch) == CASE ch = "a" -> "A" [] ch = "b" -> "B" [] OTHER -> ch

\* translator.translate: the content of the response, stripped (lines 103-106)
translate(translator, text) ==
    IF translator = "silent" THEN <<>>
    ELSE IF translator = "merging"
    THEN strip([k \in 1..Len(text) |-> IF text[k] = "\n" THEN " " ELSE Upper(text[k])])
    ELSE strip([k \in 1..Len(text) |-> Upper(text[k])])

\* lines 366-373: what a flush adds to out
flushed_entries(translated_chunks, buffer) ==
    LET translated == splitlines(join(translated_chunks, <<"\n">>))
    IN  IF Len(translated) # Len(buffer)
        THEN <<strip(join(translated, <<"\n">>))>>
        ELSE translated

RECURSIVE buffer_chars(_)
\* sum(len(x) + 1 for x in buffer)
buffer_chars(buffer) ==
    IF buffer = <<>> THEN 0 ELSE Len(Head(buffer)) + 1 + buffer_chars(Tail(buffer))

\* max(1, chunk_workers)
workers_of(chunk_workers) == Max(1, chunk_workers)

completed_order(results, order) == [k \in 1..Len(order) |-> results[order[k]].text]

\* list(executor.map(...)): the results in the order of the chunks
map_results(results, order) == [k \in 1..Len(results) |-> results[k].text]

InitParagraphs ==
    /\ p_pc = "loop"
    /\ p_paragraphs \in ParagraphLists
    /\ p_translator \in Translators
    /\ p_max_chunk_chars \in ChunkChars
    /\ p_chunk_workers \in 0..MaxWorkers
    /\ p_idx = 0 /\ p_out = <<>> /\ p_buffer = <<>>
    /\ p_chunks = <<>> /\ p_running = <<>> /\ p_results = <<>> /\ p_after = ""
    /\ p_order = <<>> /\ p_flushes = <<>>
    /\ ChunkIdle /\ IngestIdle /\ MainIdle /\ EditIdle /\ ThreadsIdle /\ FilesIdle

ParagraphsFrame == UNCHANGED <<cvars, ivars, mvars, evars, tvars, fvars>>

\* where translate_paragraphs goes on when flush_buffer is over
Continue(after, out) ==
    /\ p_out' = (IF after = "empty" THEN Append(out, <<>>) ELSE out)
    /\ p_pc' = (IF after = "final" THEN "done" ELSE "loop")

\* flush_buffer, lines 352-357: nothing to do, or the chunks go to the executor
StartFlush(buffer, after) ==
    IF buffer = <<>>
    THEN /\ Continue(after, p_out)
         /\ UNCHANGED <<p_chunks, p_running, p_results, p_after, p_order, p_flushes>>
    ELSE LET cs == translate_chunk_text(join(buffer, <<"\n">>), p_max_chunk_chars)
         IN  /\ p_chunks' = cs
             /\ p_results' = [k \in 1..Len(cs) |-> [st |-> "queued", text |-> <<>>]]
             /\ p_running' = [w \in 1..workers_of(p_chunk_workers) |-> 0]
             /\ p_after' = after
             /\ p_order' = Append(p_order, <<>>)
             /\ p_pc' = "map"
             /\ UNCHANGED <<p_out, p_flushes>>

\* lines 377-390: one paragraph of the loop, or the flush after the loop
ParagraphStep ==
    /\ p_pc = "loop"
    /\ IF p_idx >= Len(p_paragraphs)
       THEN /\ StartFlush(p_buffer, "final")
            /\ UNCHANGED <<p_idx, p_buffer>>
       ELSE LET text == strip(p_paragraphs[p_idx + 1])
            IN  /\ p_idx' = p_idx + 1
                /\ IF text = <<>>
                   THEN /\ StartFlush(p_buffer, "empty")
                        /\ UNCHANGED p_buffer
                   ELSE /\ p_buffer' = Append(p_buffer, text)
                        /\ IF buffer_chars(Append(p_buffer, text)) > p_max_chunk_chars
                           THEN StartFlush(Append(p_buffer, text), "loop")
                           ELSE /\ p_pc' = "loop"
                                /\ UNCHANGED <<p_out, p_chunks, p_running, p_results,
                                               p_after, p_order, p_flushes>>
    /\ UNCHANGED <<p_paragraphs, p_translator, p_max_chunk_chars, p_chunk_workers>>
    /\ ParagraphsFrame

\* a free worker thread of the executor takes the next chunk submitted
WorkerTake(w) ==
    /\ p_pc = "map"
    /\ w \in DOMAIN p_running
    /\ p_running[w] = 0
    /\ \E k \in 1..Len(p_chunks) :
          /\ p_results[k].st = "queued"
          /\ \A l \in 1..(k - 1) : p_results[l].st # "queued"
          /\ p_running' = [p_running EXCEPT ![w] = k]
          /\ p_results' = [p_results EXCEPT ![k].st = "running"]
    /\ UNCHANGED <<p_pc, p_paragraphs, p_translator, p_max_chunk_chars, p_chunk_workers,
                   p_idx, p_out, p_buffer, p_chunks, p_after, p_order, p_flushes>>
    /\ ParagraphsFrame

\* lines 360-362: the call of translator.translate of a worker returns, or raises
WorkerFinish(w) ==
    /\ p_pc = "map"
    /\ w \in DOMAIN p_running
    /\ p_running[w] # 0
    /\ \E ok \in BOOLEAN :
          p_results' = [p_results EXCEPT ![p_running[w]] =
                           IF ok THEN [st |-> "done",
                                       text |-> translate(p_translator, p_chunks[p_running[w]])]
                           ELSE [st |-> "raised", text |-> <<>>]]
    /\ p_order' = [p_order EXCEPT ![Len(p_order)] = Append(@, p_running[w])]
    /\ p_running' = [p_running EXCEPT ![w] = 0]
    /\ UNCHANGED <<p_pc, p_paragraphs, p_translator, p_max_chunk_chars, p_chunk_workers,
                   p_idx, p_out, p_buffer, p_chunks, p_after, p_flushes>>
    /\ ParagraphsFrame

\* lines 357-375: the executor is left when every call is over; the results
\* are taken in the order of the chunks and the first exception is raised
MapJoin ==
    /\ p_pc = "map"
    /\ \A k \in 1..Len(p_chunks) : p_results[k].st \in {"done", "raised"}
    /\ IF \E k \in 1..Len(p_chunks) : p_results[k].st = "raised"
       THEN /\ p_pc' = "raised"
            /\ UNCHANGED <<p_out, p_buffer, p_flushes>>
       ELSE LET entries == flushed_entries(map_results(p_results, p_order[Len(p_order)]),
                                           p_buffer)
            IN  /\ Continue(p_after, p_out \o entries)
                /\ p_buffer' = <<>>
                /\ p_flushes' = Append(p_flushes,
                       [idx |-> p_idx, buffered |-> Len(p_buffer),
                        lines |-> Len(splitlines(join(map_results(p_results,
                                          p_order[Len(p_order)]), <<"\n">>))),
                        entries |-> Len(entries)])
    /\ UNCHANGED <<p_paragraphs, p_translator, p_max_chunk_chars, p_chunk_workers, p_idx,
                   p_chunks, p_running, p_results, p_after, p_order>>
    /\ ParagraphsFrame

NextParagraphs ==
    \/ ParagraphStep
    \/ \E w \in 1..MaxWorkers : WorkerTake(w)
    \/ \E w \in 1..MaxWorkers : WorkerFinish(w)
    \/ MapJoin

SpecParagraphs == InitParagraphs /\ [][NextParagraphs]_vars

\* What one flush adds to out when the chunks are translated one after the other
flush_alone(translator, buffer, max_chars) ==
    IF buffer = <<>> THEN <<>>
    ELSE LET cs == translate_chunk_text(join(buffer, <<"\n">>), max_chars)
         IN  flushed_entries([k \in 1..Len(cs) |-> translate(translator, cs[k])], buffer)

RECURSIVE single_worker(_, _, _, _, _, _)
\* translate_paragraphs with one worker: the list returned
single_worker(translator, ps, k, out, buffer, max_chars) ==
    IF k > Len(ps) THEN out \o flush_alone(translator, buffer, max_chars)
    ELSE LET text == strip(ps[k])
         IN  IF text = <<>>
             THEN single_worker(translator, ps, k + 1,
                                Append(out \o flush_alone(translator, buffer, max_chars), <<>>),
                                <<>>, max_chars)
             ELSE IF buffer_chars(Append(buffer, text)) > max_chars
             THEN single_worker(translator, ps, k + 1,
                                out \o flush_alone(translator, Append(buffer, text), max_chars),
                                <<>>, max_chars)
             ELSE single_worker(translator, ps, k + 1, out, Append(buffer, text), max_chars)

EmptyParagraphs == {k \in 1..Len(p_paragraphs) : strip(p_paragraphs[k]) = <<>>}

RECURSIVE EntriesUpTo(_, _)
\* the entries added to out by the flushes made up to paragraph k
EntriesUpTo(fs, k) ==
    IF fs = <<>> THEN 0
    ELSE (IF Head(fs).idx <= k THEN Head(fs).entries ELSE 0) + EntriesUpTo(Tail(fs), k)

\* C25: whatever the number of workers and the order in which the calls
\* complete, translate_paragraphs returns the list a single worker gives;
\* each empty paragraph gives an empty entry after the entries of what
\* precedes it; when every flush got as many lines as it had paragraphs the
\* output has as many entries as the input, the empty ones at their places.
ParagraphsOrderIndependent ==
    p_pc = "done" =>
        /\ p_out = single_worker(p_translator, p_paragraphs, 1, <<>>, <<>>,
                                 p_max_chunk_chars)
        /\ \A k \in EmptyParagraphs :
              LET at == Cardinality({j \in EmptyParagraphs : j < k})
                            + EntriesUpTo(p_flushes, k) + 1
              IN  at <= Len(p_out) /\ p_out[at] = <<>>
        /\ (\A f \in 1..Len(p_flushes) : p_flushes[f].lines = p_flushes[f].buffered) =>
              /\ Len(p_out) = Len(p_paragraphs)
              /\ \A k \in EmptyParagraphs : p_out[k] = <<>>

\* Two workers, the second chunk translated before the first, an empty
\* paragraph after them: the entries are in the order of the paragraphs
ParagraphsOrderIndependentWitness ==
    /\ p_pc = "done"
    /\ p_chunk_workers = 2 /\ p_translator = "linewise"
    /\ \E f \in 1..Len(p_order) : p_order[f] = <<2, 1>>
    /\ Len(p_paragraphs) = 3
    /\ p_out = <<<<"A">>, <<"B">>, <<>>>>

\* ------------------------------------------------------------------------
\* The run of the translation main over the files of the input directory
\* ------------------------------------------------------------------------
\* The files iter_files finds in the sample input directories
InputFiles ==
    { [dir |-> "in", stem |-> "a", ext |-> ".doc"],
      [dir |-> "in", stem |-> "a", ext |-> ".docx"],
      [dir |-> "in/sub", stem |-> "a", ext |-> ".docx"],
      [dir |-> "in", stem |-> "b", ext |-> ".pdf"] }

\* --output-dir ("" when absent), --pdf-output, --overwrite, --workers
FileArguments ==
    [ output_dir : {"", "out"}, pdf_output : {"pdf", "txt", "docx"},
      overwrite : BOOLEAN, workers : 0..MaxWorkers ]

\* out_path_for_input, lines 318-335
out_path_for_input(input_path, output_dir, pdf_output) ==
    LET base_dir == IF output_dir # "" THEN output_dir ELSE input_path.dir
    IN  IF input_path.ext = ".pdf"
        THEN IF pdf_output = "txt" THEN <<base_dir, input_path.stem, "-eng.txt">>
             ELSE IF pdf_output = "docx" THEN <<base_dir, input_path.stem, "-eng.docx">>
             ELSE <<base_dir, input_path.stem, "-eng.pdf">>
        ELSE <<base_dir, input_path.stem, "-eng.docx">>

out_path_of(f) == out_path_for_input(f, f_args.output_dir, f_args.pdf_output)

\* The outputs found in place before some of the runs
OldOutputs == { {}, {<<"in", "a", "-eng.docx">>}, {<<"out", "b", "-eng.pdf">>} }

InitFiles ==
    /\ f_files \in (SUBSET InputFiles) \ {{}}
    /\ f_args \in FileArguments
    /\ f_pc = [f \in f_files |-> "queued"]
    /\ f_before \in OldOutputs
    /\ f_exists = f_before
    /\ f_writes = <<>>
    /\ ChunkIdle /\ IngestIdle /\ MainIdle /\ EditIdle /\ ThreadsIdle /\ ParagraphsIdle

FilesFrame == UNCHANGED <<cvars, ivars, mvars, evars, tvars, pvars>>

\* the files translate_one_file is running for
InFlight == {f \in f_files : f_pc[f] \in {"start", "checked"}}

\* lines 532-533: a free worker thread of the executor takes a file
FileStart(f) ==
    /\ f \in f_files
    /\ f_pc[f] = "queued"
    /\ Cardinality(InFlight) < Max(1, f_args.workers)
    /\ f_pc' = [f_pc EXCEPT ![f] = "start"]
    /\ UNCHANGED <<f_files, f_args, f_exists, f_before, f_writes>>
    /\ FilesFrame

\* lines 472-475: the output path and the test whether it exists
FileCheck(f) ==
    /\ f \in f_files
    /\ f_pc[f] = "start"
    /\ f_pc' = [f_pc EXCEPT ![f] =
                   IF out_path_of(f) \in f_exists /\ ~f_args.overwrite
                   THEN "skipped" ELSE "checked"]
    /\ UNCHANGED <<f_files, f_args, f_exists, f_before, f_writes>>
    /\ FilesFrame

\* lines 477-528: extraction and translation, which can raise (or find no
\* text in a .pdf), then the write of the output
FileWrite(f) ==
    /\ f \in f_files
    /\ f_pc[f] = "checked"
    /\ \E result \in {"wrote", "raised", "skipped"} :
          /\ result = "skipped" => f.ext = ".pdf"
          /\ f_pc' = [f_pc EXCEPT ![f] = result]
          /\ IF result = "wrote"
             THEN /\ f_exists' = f_exists \cup {out_path_of(f)}
                  /\ f_writes' = Append(f_writes, <<out_path_of(f), f>>)
             ELSE UNCHANGED <<f_exists, f_writes>>
    /\ UNCHANGED <<f_files, f_args, f_before>>
    /\ FilesFrame

NextFiles ==
    \/ \E f \in InputFiles : FileStart(f)
    \/ \E f \in InputFiles : FileCheck(f)
    \/ \E f \in InputFiles : FileWrite(f)

SpecFiles == InitFiles /\ [][NextFiles]_vars

\* C26 as stated: no two input files of a run write the same output file,
\* and without --overwrite an output that existed before the run is never
\* written.
OutputsWrittenOnce ==
    /\ \A k \in 1..Len(f_writes) : \A l \in 1..Len(f_writes) :
          k # l => f_writes[k][1] # f_writes[l][1]
    /\ ~f_args.overwrite =>
          \A k \in 1..Len(f_writes) : f_writes[k][1] \notin f_before
====
